---- MODULE Spec2Model ----
(***************************************************************************)
(* Model of the gc-shadowstack crate (src/src/lib.rs): a shadow stack is a *)
(* singly linked list of root entries that live in the caller's machine    *)
(* stack frames.  letroot! pushes an entry, the entry's Drop pops it, walk *)
(* follows the prev links and hands a type-erased view of each payload to  *)
(* a visitor, Handle / HandleMut are borrowed views of one payload.        *)
(***************************************************************************)
EXTENDS Integers, Sequences, FiniteSets, TLC

\* ---------------------------------------------------------------- bounds
\* Number of ShadowStack instances the host created.
NumStacks == 2
\* Deepest nesting of letroot declarations (machine-stack slots in use).
MaxDepth == 3
\* Number of letroot declarations along one run.
MaxGuards == 3
\* Number of Handle / HandleMut values alive at once.
MaxHandles == 1
\* Number of contexts (threads) that use shadow stacks at the same time.
NumContexts == 2

\* ------------------------------------------------------ program constants
\* core::ptr::null_mut()
Null == 0
\* Bytes of a pointer and of usize on the 64-bit target.
WordSize == 8
\* Bytes of machine stack one letroot declaration's Internal local takes: room
\* for the header, the padding and the value, a multiple of every alignment.
FrameSize == 8 * WordSize

Stacks == 1..NumStacks
Values == {42, 44}
\* The visitor only traces the value (simple.rs: value.trace()).
NoWrite == 0
\* Content of a byte range that holds no field.
NoPad == 0

\* Concrete payload types T: Rootable.  i64 is the example's; Over16 stands
\* for a type of alignment 16 (#[repr(align(16))], u128 on aarch64).
Types == {"i64", "Over16"}

AlignOf(t) == IF t = "i64" THEN 8 ELSE 16

\* The vtable of `impl Rootable for T`, one per concrete type.
VtableOf(t) == IF t = "i64" THEN 1001 ELSE 1002

\* ------------------------------------------------------------ repr(C) layout
RoundUp(n, a) == ((n + a - 1) \div a) * a

\* stack, prev, vtable: three words.
HeaderSize == 3 * WordSize

\* Offset of RawShadowStackEntry.data_start: [u8; 0] has alignment 1.
DataStartOffset == RoundUp(HeaderSize, 1)

\* Offset of ShadowStackInternal<T>.value: the next multiple of T's alignment.
ValueOffset(t) == RoundUp(HeaderSize, AlignOf(t))

\* Address of the k-th Internal local of the machine stack.
FrameBase(k) == k * FrameSize

Addrs == {FrameBase(k) : k \in 1..MaxDepth}

EntryOf(ptr) == (ptr \div FrameSize) * FrameSize

OffsetOf(ptr) == ptr % FrameSize

\* --------------------------------------------------------------- state
VARIABLES
    head,      \* head[s]: ShadowStack.head of instance s (an entry address or Null)
    mem,       \* mem[a]: the Internal that lives at machine-stack address a
    locals,    \* addresses of the live Internal locals, in declaration order
    handles,   \* the live Handle / HandleMut values
    walk,      \* the running walk call: its position and its local `head`
    nextId,    \* number of the next declaration (names guards in the claims)
    last,      \* the operation that has just acted and what it returned
    ctx        \* the mutator contexts (threads) that run beside the main one

vars == <<head, mem, locals, handles, walk, nextId, last, ctx>>

\* Machine-stack memory that holds no live Internal.
Dead ==
    [live |-> FALSE, id |-> 0, ty |-> "i64", stack |-> 0, prev |-> Null,
     vtable |-> 0, value |-> NoPad, pad |-> NoPad,
     written |-> NoPad, declHead |-> Null, declChain |-> <<>>]

WalkIdle ==
    [pc |-> "idle", stack |-> 0, cur |-> Null, visited |-> <<>>,
     next |-> Null, base |-> 0, nested |-> 0, snap |-> <<>>, head0 |-> Null]

NoOp ==
    [op |-> "new", stack |-> 0, addr |-> Null, id |-> 0, val |-> NoPad,
     ret |-> NoPad, visited |-> <<>>, rel |-> <<>>, before |-> <<>>, vtable |-> 0]

\* ---------------------------------------------------------------- memory
\* The value a read of the payload-sized place at ptr yields: the value field
\* when ptr is its address, else the bytes between the header and the field.
Load(m, ptr) ==
    LET e == m[EntryOf(ptr)] IN
    IF OffsetOf(ptr) = ValueOffset(e.ty) THEN e.value ELSE e.pad

Store(m, ptr, v) ==
    LET a == EntryOf(ptr) IN
    IF OffsetOf(ptr) = ValueOffset(m[a].ty)
    THEN [m EXCEPT ![a].value = v]
    ELSE [m EXCEPT ![a].pad = v]

\* &self.pinned.value
ValueAddr(m, a) == a + ValueOffset(m[a].ty)

\* self.data_start.as_ptr()
DataAddr(a) == a + DataStartOffset

\* RawShadowStackEntry::get_dyn: the trait object rebuilt from the entry.
get_dyn(m, a) == [vtable |-> m[a].vtable, data |-> DataAddr(a)]

\* ------------------------------------------------------------- the list
Reverse(s) == [i \in 1..Len(s) |-> s[Len(s) + 1 - i]]

\* Entries from address a along prev until null (at most n of them).
RECURSIVE ChainFrom(_, _, _)
ChainFrom(m, a, n) ==
    IF a = Null \/ n = 0 THEN <<>>
    ELSE <<a>> \o ChainFrom(m, m[a].prev, n - 1)

Chain(s) == ChainFrom(mem, head[s], MaxDepth + 1)

IdsOf(m, as) == [i \in 1..Len(as) |-> m[as[i]].id]

ChainIds(s) == IdsOf(mem, Chain(s))

\* Live guards of stack s, oldest first.
LiveOf(s) == SelectSeq(locals, LAMBDA a : mem[a].stack = s)

LiveIds(s) == IdsOf(mem, LiveOf(s))

Init ==
    /\ head = [s \in Stacks |-> Null]
    /\ mem = [a \in Addrs |-> Dead]
    /\ locals = <<>>
    /\ handles = {}
    /\ walk = WalkIdle
    /\ nextId = 1
    /\ last = NoOp
    /\ ctx = <<>>

\* ------------------------------------------------------------- letroot!
\* ShadowStackInternal::construct: the four fields as given.
constructSwapsVtable(s, prev, vtable, t, v, p) ==
    [Dead EXCEPT !.live = TRUE, !.ty = t, !.stack = s, !.prev = prev,
                 !.vtable = prev, !.value = v, !.pad = p]

constructNoPrev(s, prev, vtable, t, v, p) ==
    [Dead EXCEPT !.live = TRUE, !.ty = t, !.stack = s, !.prev = Null,
                 !.vtable = vtable, !.value = v, !.pad = p]

construct(s, prev, vtable, t, v, p) ==
    [Dead EXCEPT !.live = TRUE, !.ty = t, !.stack = s, !.prev = prev,
                 !.vtable = vtable, !.value = v, !.pad = p]

\* letroot!(name = stack, value): build the Internal in the caller's frame from
\* stack.head.get(), then stack.head.set(its address).  The bytes between the
\* header and an over-aligned value stay uninitialised (any content p).
Declare(s, t, v, p) ==
    /\ Len(locals) < MaxDepth
    /\ nextId <= MaxGuards
    /\ p = NoPad <=> ValueOffset(t) = DataStartOffset
    /\ LET a == FrameBase(Len(locals) + 1)
           e == [construct(s, head[s], VtableOf(t), t, v, p) EXCEPT
                    !.id = nextId, !.written = v,
                    !.declHead = head[s], !.declChain = ChainIds(s)]
       IN /\ mem' = [mem EXCEPT ![a] = e]
          /\ head' = [head EXCEPT ![s] = a]
          /\ locals' = Append(locals, a)
          /\ last' = [NoOp EXCEPT !.op = "letroot", !.stack = s, !.addr = a,
                                  !.id = nextId, !.val = v]
    /\ nextId' = nextId + 1
    /\ UNCHANGED <<ctx, handles>>

\* A declaration in host code outside any visitor.
Letroot(s, t, v, p) ==
    /\ walk.pc = "idle"
    /\ Declare(s, t, v, p)
    /\ UNCHANGED walk

\* ----------------------------------------------------------------- Drop
\* Drop for ShadowStackInternal: (*self.stack).head.set(self.prev).
DropOnEveryStack(hd, e) == [s \in DOMAIN hd |-> e.prev]

DropToNull(hd, e) == [hd EXCEPT ![e.stack] = Null]

DropKeepsHead(hd, e) == hd

Drop(hd, e) == [hd EXCEPT ![e.stack] = e.prev]

\* The locals a scope exit drops: innermost first (reverse declaration order).
DropOrderForward(ls, k) == SubSeq(ls, Len(ls) - k + 1, Len(ls))

DropOrder(ls, k) == Reverse(SubSeq(ls, Len(ls) - k + 1, Len(ls)))

RECURSIVE DropAll(_, _, _)
DropAll(hd, m, as) ==
    IF as = <<>> THEN hd
    ELSE DropAll(Drop(hd, m[as[1]]), m, Tail(as))

Range(s) == {s[i] : i \in 1..Len(s)}

\* Control leaves the scopes that hold the k innermost guards (end of block,
\* early return, unwinding): their Internals are dropped one after another.
Release(k) ==
    /\ k \in 1..Len(locals)
    /\ LET as == DropOrder(locals, k)
           gone == Range(as)
       IN /\ head' = DropAll(head, mem, as)
          /\ mem' = [a \in Addrs |-> IF a \in gone THEN Dead ELSE mem[a]]
          /\ locals' = SelectSeq(locals, LAMBDA a : a \notin gone)
          /\ handles' = {h \in handles : h.guard \notin gone}
          /\ last' = [NoOp EXCEPT !.op = "exit",
                         !.rel = [i \in 1..Len(as) |->
                                    [id |-> mem[as[i]].id, stack |-> mem[as[i]].stack,
                                     declHead |-> mem[as[i]].declHead,
                                     declChain |-> mem[as[i]].declChain]]]
    /\ UNCHANGED <<ctx, nextId>>

\* A scope exit in host code outside any visitor.
ScopeExit(k) ==
    /\ walk.pc = "idle"
    /\ Release(k)
    /\ UNCHANGED walk

\* ------------------------------------------------------ Rooted: Deref
\* A guard that no HandleMut borrows may be read; one that no handle borrows
\* may be written or mutably borrowed (the borrows handle() and mut_handle()
\* take on the guard).
Readable(a) == mem[a].live /\ ~\E h \in handles : h.guard = a /\ h.kind = "mut"

Writable(a) == mem[a].live /\ ~\E h \in handles : h.guard = a

\* Deref for Rooted: &self.pinned.value, read.
Deref(a) ==
    /\ walk.pc = "idle"
    /\ a \in Range(locals)
    /\ Readable(a)
    /\ last' = [NoOp EXCEPT !.op = "deref", !.addr = a, !.id = mem[a].id,
                            !.stack = mem[a].stack,
                            !.ret = Load(mem, ValueAddr(mem, a))]
    /\ UNCHANGED <<ctx, head, mem, locals, handles, walk, nextId>>

\* DerefMut for Rooted: *guard = v.
DerefMut(a, v) ==
    /\ walk.pc = "idle"
    /\ a \in Range(locals)
    /\ Writable(a)
    /\ mem' = [Store(mem, ValueAddr(mem, a), v) EXCEPT ![a].written = v]
    /\ last' = [NoOp EXCEPT !.op = "deref_mut", !.addr = a, !.id = mem[a].id,
                            !.stack = mem[a].stack, !.val = v]
    /\ UNCHANGED <<ctx, head, locals, handles, walk, nextId>>

\* ------------------------------------------------- Handle and HandleMut
\* Rooted::handle: Handle { value: &**self }.
handle(a) ==
    /\ walk.pc = "idle"
    /\ a \in Range(locals)
    /\ Readable(a)
    /\ Cardinality(handles) < MaxHandles
    /\ handles' = handles \cup {[kind |-> "ref", guard |-> a, value |-> ValueAddr(mem, a)]}
    /\ last' = [NoOp EXCEPT !.op = "handle", !.addr = a, !.id = mem[a].id,
                            !.stack = mem[a].stack]
    /\ UNCHANGED <<ctx, head, mem, locals, walk, nextId>>

\* Rooted::mut_handle: HandleMut { value: &mut **self }.
mut_handle(a) ==
    /\ walk.pc = "idle"
    /\ a \in Range(locals)
    /\ Writable(a)
    /\ Cardinality(handles) < MaxHandles
    /\ handles' = handles \cup {[kind |-> "mut", guard |-> a, value |-> ValueAddr(mem, a)]}
    /\ last' = [NoOp EXCEPT !.op = "mut_handle", !.addr = a, !.id = mem[a].id,
                            !.stack = mem[a].stack]
    /\ UNCHANGED <<ctx, head, mem, locals, walk, nextId>>

\* Deref for Handle and for HandleMut: self.value, read.
HandleDeref(h) ==
    /\ walk.pc = "idle"
    /\ h \in handles
    /\ last' = [NoOp EXCEPT !.op = "handle_deref", !.addr = h.guard,
                            !.id = mem[h.guard].id, !.stack = mem[h.guard].stack,
                            !.ret = Load(mem, h.value)]
    /\ UNCHANGED <<ctx, head, mem, locals, handles, walk, nextId>>

\* DerefMut for HandleMut: *handle = v.
HandleDerefMut(h, v) ==
    /\ walk.pc = "idle"
    /\ h \in handles
    /\ h.kind = "mut"
    /\ mem' = [Store(mem, h.value, v) EXCEPT ![h.guard].written = v]
    /\ last' = [NoOp EXCEPT !.op = "handle_deref_mut", !.addr = h.guard,
                            !.id = mem[h.guard].id, !.stack = mem[h.guard].stack,
                            !.val = v]
    /\ UNCHANGED <<ctx, head, locals, handles, walk, nextId>>

\* core::mem::replace(self.value, value): the new memory and the returned value.
replaceClobbersLink(m, ptr, v) ==
    [m |-> [Store(m, ptr, v) EXCEPT ![EntryOf(ptr)].prev = Null], ret |-> Load(m, ptr)]

replace(m, ptr, v) == [m |-> Store(m, ptr, v), ret |-> Load(m, ptr)]

\* HandleMut::set(value) -> T.
set(h, v) ==
    /\ walk.pc = "idle"
    /\ h \in handles
    /\ h.kind = "mut"
    /\ LET r == replace(mem, h.value, v)
       IN /\ mem' = [r.m EXCEPT ![h.guard].written = v]
          /\ last' = [NoOp EXCEPT !.op = "set", !.addr = h.guard,
                                  !.id = mem[h.guard].id, !.stack = mem[h.guard].stack,
                                  !.val = v, !.ret = r.ret,
                                  !.before = <<Load(mem, ValueAddr(mem, h.guard))>>]
    /\ UNCHANGED <<ctx, head, locals, handles, walk, nextId>>

\* The handle's borrow ends (it has no Drop implementation).
DropHandle(h) ==
    /\ walk.pc = "idle"
    /\ h \in handles
    /\ handles' = handles \ {h}
    /\ last' = [NoOp EXCEPT !.op = "drop_handle", !.addr = h.guard,
                            !.id = mem[h.guard].id, !.stack = mem[h.guard].stack]
    /\ UNCHANGED <<ctx, head, mem, locals, walk, nextId>>

\* ----------------------------------------------------------------- walk
\* let mut head = *self.head.as_ptr();
WalkBegin(s) ==
    /\ walk.pc = "idle"
    /\ walk' = [WalkIdle EXCEPT !.pc = "loop", !.stack = s, !.cur = head[s],
                                !.snap = Reverse(LiveIds(s)), !.head0 = head[s]]
    /\ last' = [NoOp EXCEPT !.op = "walk_begin", !.stack = s]
    /\ UNCHANGED <<ctx, head, mem, locals, handles, nextId>>

\* The entry the loop continues with after the one at a.
NextEntryStays(m, a) == a

NextEntrySkips(m, a) == IF m[a].prev = Null THEN Null ELSE m[m[a].prev].prev

NextEntry(m, a) == m[a].prev

\* What an iteration does to ShadowStack.head: nothing, the cursor is walk's
\* own local `head`.
WalkCursorShared(hd, s, next) == [hd EXCEPT ![s] = next]

WalkCursor(hd, s, next) == hd

\* One iteration: let next = (*head).prev; visitor((*head).get_dyn());
\* head = next.  The visitor reads the view and writes w to it, unless w is
\* NoWrite.
WalkVisit(w) ==
    /\ walk.pc = "loop"
    /\ walk.cur # Null
    /\ LET a == walk.cur
           next == NextEntry(mem, a)
           view == get_dyn(mem, a)
       IN /\ mem' = IF w = NoWrite THEN mem
                    ELSE [Store(mem, view.data, w) EXCEPT ![a].written = w]
          /\ walk' = [walk EXCEPT !.cur = next, !.visited = Append(@, mem[a].id)]
          /\ head' = WalkCursor(head, walk.stack, next)
          /\ last' = [NoOp EXCEPT !.op = "visit", !.stack = walk.stack, !.addr = a,
                                  !.id = mem[a].id, !.val = w,
                                  !.ret = Load(mem, view.data),
                                  !.before = <<mem[a].written>>,
                                  !.vtable = view.vtable]
    /\ UNCHANGED <<ctx, locals, handles, nextId>>

\* while !head.is_null() ends: walk returns.
WalkReturn ==
    /\ walk.pc = "loop"
    /\ walk.cur = Null
    /\ walk' = WalkIdle
    /\ last' = [NoOp EXCEPT !.op = "walk", !.stack = walk.stack,
                            !.visited = walk.visited, !.before = walk.snap,
                            !.addr = walk.head0, !.val = walk.nested]
    /\ UNCHANGED <<ctx, head, mem, locals, handles, nextId>>

Next ==
    \/ \E s \in Stacks, t \in Types, v \in Values, p \in Values \cup {NoPad} :
          Letroot(s, t, v, p)
    \/ \E k \in 1..MaxDepth : ScopeExit(k)
    \/ \E a \in Addrs : Deref(a)
    \/ \E a \in Addrs, v \in Values : DerefMut(a, v)
    \/ \E a \in Addrs : handle(a)
    \/ \E a \in Addrs : mut_handle(a)
    \/ \E h \in handles : HandleDeref(h)
    \/ \E h \in handles, v \in Values : HandleDerefMut(h, v)
    \/ \E h \in handles, v \in Values : set(h, v)
    \/ \E h \in handles : DropHandle(h)
    \/ \E s \in Stacks : WalkBegin(s)
    \/ \E w \in Values \cup {NoWrite} : WalkVisit(w)
    \/ WalkReturn

Spec == Init /\ [][Next]_vars

\* ------------------------------------------------ release out of order
\* Host code that holds Internals itself (the type and construct are public)
\* can drop one while younger ones are live.  Drop runs the same and checks
\* nothing; the machine-stack slot stays taken until its frame ends.
ReleaseAny(a) ==
    /\ walk.pc = "idle"
    /\ a \in Range(locals)
    /\ mem[a].live
    /\ head' = Drop(head, mem[a])
    /\ mem' = [mem EXCEPT ![a] = Dead]
    /\ handles' = {h \in handles : h.guard # a}
    /\ last' = [NoOp EXCEPT !.op = "drop", !.addr = a, !.id = mem[a].id,
                            !.stack = mem[a].stack, !.before = <<mem[a].prev>>]
    /\ UNCHANGED <<ctx, locals, walk, nextId>>

NextMisuse ==
    \/ \E s \in Stacks, t \in Types, v \in Values, p \in Values \cup {NoPad} :
          Letroot(s, t, v, p)
    \/ \E a \in Addrs : ReleaseAny(a)

\* Runs in which guards are released in any order.
SpecMisuse == Init /\ [][NextMisuse]_vars

\* ------------------------------------------- a visitor that roots values
\* The cursor walk continues with when the visitor has returned: the prev it
\* read before the call.
AfterVisitorRereadsHead(hd, w) == hd[w.stack]

AfterVisitor(hd, w) == w.next

\* let next = (*head).prev; visitor((*head).get_dyn()): the visitor is entered.
VisitorCall(w) ==
    /\ walk.pc = "loop"
    /\ walk.cur # Null
    /\ LET a == walk.cur
           view == get_dyn(mem, a)
       IN /\ mem' = IF w = NoWrite THEN mem
                    ELSE [Store(mem, view.data, w) EXCEPT ![a].written = w]
          /\ walk' = [walk EXCEPT !.pc = "visitor", !.next = NextEntry(mem, a),
                         !.base = Len(locals), !.visited = Append(@, mem[a].id)]
          /\ last' = [NoOp EXCEPT !.op = "visit", !.stack = walk.stack, !.addr = a,
                                  !.id = mem[a].id, !.val = w,
                                  !.ret = Load(mem, view.data),
                                  !.before = <<mem[a].written>>,
                                  !.vtable = view.vtable]
    /\ UNCHANGED <<ctx, head, locals, handles, nextId>>

\* letroot! inside the visitor's body.
VisitorLetroot(s, t, v, p) ==
    /\ walk.pc = "visitor"
    /\ Declare(s, t, v, p)
    /\ walk' = [walk EXCEPT !.nested = IF s = walk.stack THEN @ + 1 ELSE @]

\* A scope of the visitor's body ends: only guards declared in it are dropped.
VisitorScopeExit(k) ==
    /\ walk.pc = "visitor"
    /\ Len(locals) - k >= walk.base
    /\ Release(k)
    /\ UNCHANGED walk

\* The visitor returns, all its locals dropped; head = next.
VisitorReturn ==
    /\ walk.pc = "visitor"
    /\ Len(locals) = walk.base
    /\ walk' = [walk EXCEPT !.pc = "loop", !.cur = AfterVisitor(head, walk)]
    /\ last' = [NoOp EXCEPT !.op = "visitor_return", !.stack = walk.stack]
    /\ UNCHANGED <<ctx, head, mem, locals, handles, nextId>>

NextNested ==
    \/ \E s \in Stacks, t \in Types, v \in Values, p \in Values \cup {NoPad} :
          Letroot(s, t, v, p)
    \/ \E k \in 1..MaxDepth : ScopeExit(k)
    \/ \E s \in Stacks : WalkBegin(s)
    \/ \E w \in Values \cup {NoWrite} : VisitorCall(w)
    \/ \E s \in Stacks, t \in Types, v \in Values, p \in Values \cup {NoPad} :
          VisitorLetroot(s, t, v, p)
    \/ \E k \in 1..MaxDepth : VisitorScopeExit(k)
    \/ VisitorReturn
    \/ WalkReturn

\* Runs in which the visitor declares and releases guards of its own.
SpecNested == Init /\ [][NextNested]_vars

\* ------------------------------------------------- unsynchronized contexts
\* ShadowStack holds a Cell and nothing else: no lock, no atomic.  Each context
\* runs letroot!, scope exits and walk on the instance it was handed; the steps
\* of different contexts interleave at every access of head.
Contexts == 1..NumContexts

\* Address of the k-th Internal local of context c's own machine stack.
CtxFrame(c, k) == FrameBase((c - 1) * MaxDepth + k)

CtxAddrs == {CtxFrame(c, k) : c \in Contexts, k \in 1..MaxDepth}

\* A context that uses instance s and has declared nothing.
CtxIdle(s) == [stack |-> s, pc |-> "idle", frames |-> <<>>, cur |-> Null]

InitConc ==
    /\ head = [s \in Stacks |-> Null]
    /\ mem = [a \in CtxAddrs |-> Dead]
    /\ locals = <<>>
    /\ handles = {}
    /\ walk = WalkIdle
    /\ nextId = 1
    /\ last = NoOp
    /\ ctx \in [Contexts -> {CtxIdle(s) : s \in Stacks}]

\* letroot!, first step: construct(stack, stack.head.get(), vtable, value)
\* builds the Internal from the head it has read.
CtxConstruct(c, t, v, p) ==
    /\ ctx[c].pc = "idle"
    /\ Len(ctx[c].frames) < MaxDepth
    /\ nextId <= MaxGuards
    /\ p = NoPad <=> ValueOffset(t) = DataStartOffset
    /\ LET s == ctx[c].stack
           a == CtxFrame(c, Len(ctx[c].frames) + 1)
       IN /\ mem' = [mem EXCEPT ![a] =
                        [construct(s, head[s], VtableOf(t), t, v, p) EXCEPT
                            !.id = nextId, !.written = v, !.declHead = head[s]]]
          /\ ctx' = [ctx EXCEPT ![c].pc = "built", ![c].frames = Append(@, a)]
          /\ last' = [NoOp EXCEPT !.op = "construct", !.stack = s, !.addr = a,
                                  !.id = nextId, !.val = c]
    /\ nextId' = nextId + 1
    /\ UNCHANGED <<head, locals, handles, walk>>

\* letroot!, second step: stack.head.set(address of the Internal).
CtxLink(c) ==
    /\ ctx[c].pc = "built"
    /\ LET s == ctx[c].stack
           a == ctx[c].frames[Len(ctx[c].frames)]
       IN /\ head' = [head EXCEPT ![s] = a]
          /\ last' = [NoOp EXCEPT !.op = "link", !.stack = s, !.addr = a,
                                  !.id = mem[a].id, !.val = c]
    /\ ctx' = [ctx EXCEPT ![c].pc = "idle"]
    /\ UNCHANGED <<mem, locals, handles, walk, nextId>>

\* The scope of context c's innermost guard ends: Drop writes head.
CtxRelease(c) ==
    /\ ctx[c].pc = "idle"
    /\ ctx[c].frames # <<>>
    /\ LET n == Len(ctx[c].frames)
           a == ctx[c].frames[n]
       IN /\ head' = Drop(head, mem[a])
          /\ mem' = [mem EXCEPT ![a] = Dead]
          /\ ctx' = [ctx EXCEPT ![c].frames = SubSeq(@, 1, n - 1)]
          /\ last' = [NoOp EXCEPT !.op = "drop", !.stack = mem[a].stack, !.addr = a,
                                  !.id = mem[a].id, !.val = c]
    /\ UNCHANGED <<locals, handles, walk, nextId>>

\* walk: let mut head = *self.head.as_ptr();
CtxWalkBegin(c) ==
    /\ ctx[c].pc = "idle"
    /\ ctx' = [ctx EXCEPT ![c].pc = "walking", ![c].cur = head[ctx[c].stack]]
    /\ last' = [NoOp EXCEPT !.op = "walk_begin", !.stack = ctx[c].stack, !.val = c]
    /\ UNCHANGED <<head, mem, locals, handles, walk, nextId>>

\* One turn of walk's loop: next = (*head).prev; visitor(..); head = next.
\* The prev of an entry whose frame was released is whatever the frame holds.
CtxWalkStep(c, junk) ==
    /\ ctx[c].pc = "walking"
    /\ ctx[c].cur # Null
    /\ LET a == ctx[c].cur
       IN /\ mem[a].live => junk = NextEntry(mem, a)
          /\ ctx' = [ctx EXCEPT ![c].cur = junk]
          /\ last' = [NoOp EXCEPT !.op = "visit", !.stack = ctx[c].stack, !.addr = a,
                                  !.id = mem[a].id, !.val = c]
    /\ UNCHANGED <<head, mem, locals, handles, walk, nextId>>

\* walk's loop ends at the null pointer.
CtxWalkReturn(c) ==
    /\ ctx[c].pc = "walking"
    /\ ctx[c].cur = Null
    /\ ctx' = [ctx EXCEPT ![c].pc = "idle"]
    /\ last' = [NoOp EXCEPT !.op = "walk", !.stack = ctx[c].stack, !.val = c]
    /\ UNCHANGED <<head, mem, locals, handles, walk, nextId>>

NextConc ==
    \/ \E c \in Contexts, t \in Types, v \in Values, p \in Values \cup {NoPad} :
          CtxConstruct(c, t, v, p)
    \/ \E c \in Contexts : CtxLink(c)
    \/ \E c \in Contexts : CtxRelease(c)
    \/ \E c \in Contexts : CtxWalkBegin(c)
    \/ \E c \in Contexts, junk \in CtxAddrs \cup {Null} : CtxWalkStep(c, junk)
    \/ \E c \in Contexts : CtxWalkReturn(c)

\* Contexts that interleave at every step, each on the instance it was handed.
SpecConc == InitConc /\ [][NextConc]_vars

\* =================================================================== claims
IsDescending(q) == \A i, j \in 1..Len(q) : i < j => q[i] > q[j]

\* C1 (LIFO integrity): in every reachable state the entries reached from head
\* along prev are exactly the live guards of that stack, newest first: every
\* entry on the chain is a live Internal, none is missing and none repeats.
C1_LifoIntegrity ==
    \A s \in Stacks :
        /\ \A i \in 1..Len(Chain(s)) : mem[Chain(s)[i]].live
        /\ ChainIds(s) = Reverse(LiveIds(s))

\* A release has happened and two guards of stack 1 are still live.
C1_Witness == last.op = "exit" /\ Len(LiveIds(1)) = 2 /\ Len(Chain(1)) = 2

\* C2 (walk completeness): when walk returns, the visitor has been invoked
\* once per live guard of the walked stack and on nothing else, so N live guards
\* give N invocations.
C2_WalkCompleteness ==
    last.op = "walk" =>
        LET live == LiveIds(last.stack) IN
        /\ Len(last.visited) = Len(live)
        /\ \A g \in Range(live) :
               Cardinality({i \in 1..Len(last.visited) : last.visited[i] = g}) = 1
        /\ Range(last.visited) \subseteq Range(live)

\* A walk over two live guards has returned after a third guard was released
\* or lives on the other stack.
C2_Witness ==
    last.op = "walk" /\ Len(last.visited) = 2 /\ nextId = 4 /\ Len(locals) = 2

\* The oldest guard of stack s among the ones a scope exit released.
OldestReleased(rel, s) ==
    LET on == SelectSeq(rel, LAMBDA r : r.stack = s) IN on[Len(on)]

\* C3 (release restores the prior head): after a scope exit, the head of each
\* stack that lost guards is the head that stack had right before the oldest of
\* them was declared, and the list is the list of that moment.
C3_ReleaseRestoresHead ==
    last.op = "exit" =>
        \A s \in Stacks :
            (\E i \in 1..Len(last.rel) : last.rel[i].stack = s) =>
                /\ head[s] = OldestReleased(last.rel, s).declHead
                /\ ChainIds(s) = OldestReleased(last.rel, s).declChain

\* An inner scope with one guard has exited and an outer guard of the same
\* stack is the head again.
C3_Witness ==
    /\ last.op = "exit"
    /\ Len(last.rel) = 1
    /\ head[last.rel[1].stack] # Null
    /\ last.rel[1].declHead = head[last.rel[1].stack]

\* C4 (payload aliasing), as claimed: what a read through the guard or a handle
\* returns is the value last written by any path, the visitor's included, and
\* what the visitor is shown is the value last written by any path.
C4_AliasingAsClaimed ==
    /\ last.op \in {"deref", "handle_deref"} => last.ret = mem[last.addr].written
    /\ last.op = "visit" => last.ret = last.before[1]

\* C5 (walk order): walk hands the visitor the live guards of the stack in
\* most-recently-declared-first order, whatever was declared and released
\* before.
C5_WalkOrder ==
    last.op = "walk" =>
        /\ IsDescending(last.visited)
        /\ last.visited = Reverse(LiveIds(last.stack))

\* A, B, C declared on one stack and walked: the visitor saw C, B, A.
C5_Witness == last.op = "walk" /\ last.visited = <<3, 2, 1>>

\* C6 (declaration postcondition): a step that declares a guard on stack s sets
\* head[s] to the new entry, stores the old head[s] in its prev, and changes no
\* other entry's prev and no other stack's head.
C6_DeclarationPostcondition ==
    [][nextId' # nextId =>
        LET a == last'.addr
            s == last'.stack
        IN /\ head'[s] = a
           /\ mem'[a].live
           /\ mem'[a].prev = head[s]
           /\ \A b \in Addrs \ {a} : mem'[b].prev = mem[b].prev
           /\ \A r \in Stacks \ {s} : head'[r] = head[r]]_vars

\* A guard has just been declared on a stack that already had a head.
C6_Witness ==
    /\ last.op = "letroot"
    /\ head[last.stack] = last.addr
    /\ mem[last.addr].prev # Null

\* C7 (release order): whenever guards stop being live, they are the innermost
\* locals, every one of them is released, and they are released newest first;
\* guards stop being live in scope exits only.
C7_ReleaseOrder ==
    [][(\E a \in Addrs : mem[a].live /\ (~mem'[a].live \/ mem'[a].id # mem[a].id)) =>
        LET n == Len(locals')
            left == SubSeq(locals, n + 1, Len(locals))
        IN /\ last'.op = "exit"
           /\ n < Len(locals)
           /\ locals' = SubSeq(locals, 1, n)
           /\ [i \in 1..Len(last'.rel) |-> last'.rel[i].id] = Reverse(IdsOf(mem, left))
           /\ IsDescending([i \in 1..Len(last'.rel) |-> last'.rel[i].id])
           /\ \A s \in Stacks :
                 LiveIds(s)' = SubSeq(LiveIds(s), 1, Len(LiveIds(s)'))]_vars

\* An early exit has released two guards of one stack.
C7_Witness ==
    /\ last.op = "exit"
    /\ Len(last.rel) = 2
    /\ last.rel[1].stack = last.rel[2].stack
    /\ last.rel[1].id > last.rel[2].id

\* C8 (layout match), as claimed: for every live entry, whatever its payload
\* type, the data address get_dyn uses is the address of the value field.
C8_LayoutMatchAsClaimed ==
    \A a \in Addrs : mem[a].live => get_dyn(mem, a).data = ValueAddr(mem, a)

\* C9 (HandleMut::set), as claimed: set returns the payload held before the
\* call, and afterwards the guard, the handle and walk's view all hold the new
\* value.
C9_SetAsClaimed ==
    last.op = "set" =>
        /\ last.ret = last.before[1]
        /\ Load(mem, ValueAddr(mem, last.addr)) = last.val
        /\ \A h \in handles : h.guard = last.addr => Load(mem, h.value) = last.val
        /\ Load(mem, get_dyn(mem, last.addr).data) = last.val

HandleOps ==
    {"handle", "mut_handle", "handle_deref", "handle_deref_mut", "set", "drop_handle"}

\* C10 (handles are outside the list): a step that creates a handle, reads or
\* writes through it, calls set or drops it leaves every head, every entry's
\* prev, vtable and stack, and the guards that are live and their order alone.
C10_HandlesOutsideList ==
    [][last'.op \in HandleOps =>
        /\ head' = head
        /\ locals' = locals
        /\ \A a \in Addrs :
              /\ mem'[a].prev = mem[a].prev
              /\ mem'[a].vtable = mem[a].vtable
              /\ mem'[a].stack = mem[a].stack
              /\ mem'[a].live = mem[a].live
              /\ mem'[a].id = mem[a].id]_vars

\* set has just replaced the payload of a guard that has an older guard
\* behind it on the list.
C10_Witness ==
    /\ last.op = "set"
    /\ mem[last.addr].prev # Null
    /\ mem[last.addr].value = last.val
    /\ last.ret # last.val

WalkOps == {"walk_begin", "visit", "walk"}

\* C11 (walk is a pure consumer): a step of walk, whatever the visitor writes
\* to the view it is given, leaves every head, every entry's prev, vtable and
\* stack and the live guards as they were; only payload bytes may differ.
C11_WalkPureConsumer ==
    [][last'.op \in WalkOps =>
        /\ head' = head
        /\ locals' = locals
        /\ \A a \in Addrs :
              /\ mem'[a].prev = mem[a].prev
              /\ mem'[a].vtable = mem[a].vtable
              /\ mem'[a].stack = mem[a].stack
              /\ mem'[a].live = mem[a].live
              /\ mem'[a].id = mem[a].id]_vars

\* A walk over two guards has returned after the visitor wrote to a view it
\* was given, and the list is still the two guards.
C11_Witness ==
    /\ last.op = "walk"
    /\ Len(last.visited) = 2
    /\ ChainIds(last.stack) = last.visited
    /\ \E a \in Addrs : mem[a].live /\ mem[a].written # mem[a].value

\* C13 (descriptor validity): in every reachable state each live entry holds
\* the vtable of its payload's concrete type, and the view walk hands to the
\* visitor carries the vtable of the visited entry's own type.
C13_DescriptorValidity ==
    /\ \A a \in Addrs : mem[a].live => mem[a].vtable = VtableOf(mem[a].ty)
    /\ last.op = "visit" => last.vtable = VtableOf(mem[last.addr].ty)

\* The visitor has been handed an i64 entry on a stack that also holds an
\* Over16 entry the visitor has written to.
C13_Witness ==
    /\ last.op = "visit"
    /\ mem[last.addr].ty = "i64"
    /\ \E a \in Addrs :
          /\ mem[a].live
          /\ mem[a].stack = last.stack
          /\ mem[a].ty = "Over16"
          /\ mem[a].value # mem[a].written

\* C15 (empty exactly when no guard is live): head of a stack is null exactly
\* when the stack has no live guard, and a head that is not null is the address
\* of a live entry of that stack.
C15_EmptyIffNoLiveGuard ==
    \A s \in Stacks :
        /\ head[s] = Null <=> LiveOf(s) = <<>>
        /\ head[s] # Null => mem[head[s]].live /\ mem[head[s]].stack = s

\* Every guard declared so far has been released and both heads are null again.
C15_Witness ==
    /\ last.op = "exit"
    /\ nextId = MaxGuards + 1
    /\ locals = <<>>
    /\ \A s \in Stacks : head[s] = Null

\* C17 (walk terminates): the prev chain from head has no repeated entry and
\* reaches null after as many links as the stack has live guards, and a running
\* walk has visited as many entries as the chain from its cursor is short of
\* that number, so it returns after that many iterations.
C17_WalkTerminates ==
    /\ \A s \in Stacks :
          /\ Len(Chain(s)) = Len(LiveOf(s))
          /\ Cardinality(Range(Chain(s))) = Len(Chain(s))
    /\ walk.pc = "loop" =>
          Len(walk.visited) + Len(ChainFrom(mem, walk.cur, MaxDepth + 1))
              = Len(LiveOf(walk.stack))
    /\ last.op = "walk" => Len(last.visited) = Len(LiveOf(last.stack))

\* A walk over three live guards is about to return.
C17_Witness == walk.pc = "loop" /\ walk.cur = Null /\ Len(walk.visited) = 3

\* The stacks an operation acts on.
StacksOf(l) ==
    IF l.op = "exit" THEN {l.rel[i].stack : i \in 1..Len(l.rel)} ELSE {l.stack}

\* C18 (stack independence): a step leaves the head of every stack it does
\* not act on and every entry of such a stack unchanged, and the visitor is
\* only handed entries of the walked stack.
C18_StackIndependence ==
    [][/\ \A s \in Stacks \ StacksOf(last') :
             /\ head'[s] = head[s]
             /\ LiveOf(s)' = LiveOf(s)
             /\ \A a \in Addrs : mem[a].stack = s => mem'[a] = mem[a]
       /\ last'.op = "visit" => mem[last'.addr].stack = last'.stack]_vars

\* Guards of the two stacks were declared interleaved, the inner one was
\* released, and a walk of stack 1 has visited its one guard.
C18_Witness ==
    /\ last.op = "walk"
    /\ last.stack = 1
    /\ last.visited = <<1>>
    /\ nextId = 4
    /\ Len(LiveOf(2)) = 1
    /\ head[2] # Null

\* Entries reached from the head of stack s in memory m.
Reached(hd, m, s) == Range(ChainFrom(m, hd[s], MaxDepth + 1))

\* C12 (out-of-order release): a release of guard G, at the head or not, goes
\* through and sets head to G.prev; afterwards no live guard of the stack that
\* was declared after G is reached from head; and when G.prev is an entry
\* released earlier, head is left pointing at that released entry.
C12_OutOfOrderRelease ==
    [][last'.op = "drop" =>
        LET g == last'.addr
            s == mem[g].stack
        IN /\ head'[s] = mem[g].prev
           /\ \A r \in Stacks \ {s} : head'[r] = head[r]
           /\ \A y \in Addrs :
                 (mem'[y].live /\ mem'[y].stack = s /\ mem'[y].id > mem[g].id)
                     => y \notin Reached(head', mem', s)
           /\ (mem[g].prev # Null /\ ~mem[mem[g].prev].live)
                 => (head'[s] = mem[g].prev /\ ~mem'[head'[s]].live)]_vars

\* G was released while a younger guard of its stack was live, and the later
\* release of that guard has left head pointing at the released G.
C12_Witness ==
    /\ last.op = "drop"
    /\ last.before[1] # Null
    /\ head[last.stack] = last.before[1]
    /\ ~mem[head[last.stack]].live

\* C16 (walk iterates over the list as it was at the call): while a visitor
\* declares and releases guards of its own, the running walk has visited only
\* guards that were live at the call, each at most once and newest first; when
\* it returns it has visited all of them, and head is what it was at the call.
C16_WalkSnapshot ==
    /\ walk.pc # "idle" =>
          /\ Len(walk.visited) <= Len(walk.snap)
          /\ walk.visited = SubSeq(walk.snap, 1, Len(walk.visited))
          /\ walk.pc = "loop" => head[walk.stack] = walk.head0
    /\ last.op = "walk" =>
          /\ last.visited = last.before
          /\ head[last.stack] = last.addr
          /\ last.visited = Reverse(LiveIds(last.stack))

\* A walk over two guards has returned, and its visitor had declared a guard
\* on the walked stack.
C16_Witness ==
    /\ last.op = "walk"
    /\ Len(last.visited) = 2
    /\ last.val >= 1

\* The guards whose declaration has completed and whose scope has not ended.
DeclaredGuards ==
    UNION {{ctx[c].frames[i] : i \in 1..(IF ctx[c].pc = "built"
                                         THEN Len(ctx[c].frames) - 1
                                         ELSE Len(ctx[c].frames))} : c \in Contexts}

\* A declared guard is not reached from the head of its stack.
LostGuard == \E a \in DeclaredGuards : a \notin Reached(head, mem, mem[a].stack)

\* The list of some stack, or the cursor of a running walk, holds a released
\* entry.
DanglingEntry ==
    \/ \E s \in Stacks : \E a \in Reached(head, mem, s) : ~mem[a].live
    \/ \E c \in Contexts :
          ctx[c].pc = "walking" /\ ctx[c].cur # Null /\ ~mem[ctx[c].cur].live

SharedInstance == \E c, d \in Contexts : c # d /\ ctx[c].stack = ctx[d].stack

\* C19 (no internal synchronization): when every context uses an instance of
\* its own, no interleaving of the contexts' steps loses a declared guard or
\* leaves a list or a walk at a released entry.  (On a shared instance such a
\* state is reached: C19_Witness.)
C19_NoSynchronization == ~SharedInstance => ~(LostGuard \/ DanglingEntry)

\* Two contexts on one instance, a declaration interleaved with another one:
\* the second link has overwritten the first, whose guard is lost.
C19_Witness ==
    /\ SharedInstance
    /\ last.op = "link"
    /\ LostGuard

====
